---- MODULE Spec2Model ----
(***************************************************************************)
(* Model of the Web3Wallet component (wallet session + chain-data          *)
(* aggregation).  The React state cells (walletState, tokenBalances,       *)
(* transactions, isRefreshing) are the shared state; every asynchronous    *)
(* function invocation (connectWallet, refreshWalletData) is an entry of   *)
(* `ops` whose pc is the await it is suspended at.  One action is one      *)
(* synchronous run of handler code between two awaits.                     *)
(***************************************************************************)
EXTENDS Integers, Sequences, FiniteSets, Bags, TLC

VARIABLES
    hasProvider,    \* window.ethereum is injected
    probe,          \* position of checkWalletConnection (mount effect)
    walletState,    \* useState<WalletState>
    tokenBalances,  \* useState<TokenBalance[]>
    transactions,   \* useState<Transaction[]>
    isRefreshing,   \* useState(false)
    ops,            \* bag of the suspended connectWallet / refreshWalletData invocations
    last            \* the step just taken: handler, invocation, response consumed

vars == <<hasProvider, probe, walletState, tokenBalances, transactions,
          isRefreshing, ops, last>>

\* The record of a step: the handler code that ran, the function it belongs
\* to, the response it consumed, the address it worked for, the requests it
\* sent and whether the invocation returned ("running", "done", "failed").
Step(act, kind, out, arg, sent, end) ==
    [act |-> act, kind |-> kind, out |-> out, arg |-> arg, sent |-> sent, end |-> end]

\* Number of connectWallet/refreshWalletData invocations in flight at once.
MaxOps == 2

\* `T | null`: null is the empty tuple, a value v is <<v>>.
None == <<>>
Some(v) == <<v>>

\* The not-a-number result of parseInt.
NaN == -1

---------------------------------------------------------------------------
\* Responses of the environment (wallet provider, history service).

Addresses == {"0xA1", "0xB2"}

\* eth_accounts / eth_requestAccounts results.
AccountLists == {<<>>, <<"0xA1">>, <<"0xB2", "0xA1">>}

\* Values a rejected request throws: an Error instance or a plain object.
UserRejection == [isError |-> TRUE, message |-> "User rejected the request."]
ProviderErrorObject == [isError |-> FALSE, message |-> "provider error object"]
RpcError == [isError |-> TRUE, message |-> "Internal JSON-RPC error."]

Resolved(v) == [ok |-> TRUE, value |-> v]
Rejected(t) == [ok |-> FALSE, thrown |-> t]

AccountsOutcomes ==
    {Resolved(a) : a \in AccountLists}
        \cup {Rejected(UserRejection), Rejected(ProviderErrorObject)}

\* eth_chainId results: hex strings after the 0x prefix, one digit per element.
ChainIdHex == {<<1>>, <<8, 9>>}

\* Chain ids the provider reports: every small one, the larger ones of the
\* network table and one that no table knows.
MaxChainId == 60

ChainIds == (0..MaxChainId) \cup {97, 137, 42161, 80001, 11155111, 999999}

\* The digits of n in base 16, as eth_chainId writes them after "0x".
RECURSIVE HexDigits(_)
HexDigits(n) == IF n < 16 THEN <<n>> ELSE Append(HexDigits(n \div 16), n % 16)

\* A character that is no hex digit.
NonHexChar == 16

\* Every shape of eth_chainId answer: the well-formed ones, "0x", "0xg" and
\* "0x1g".
AllChainIdHex == ChainIdHex \cup {<<>>, <<NonHexChar>>, <<1, NonHexChar>>}

ChainIdOutcomes ==
    {Resolved(h) : h \in ChainIdHex} \cup {Rejected(RpcError)}

\* eth_getBalance results.  A wei amount does not fit 32-bit integers, so it
\* is held as <<hi, mid, lo>> = hi*10^12 + mid*10^6 + lo.
WeiAmounts == {<<1000000, 0, 0>>, <<2, 700000, 0>>}

BalanceOutcomes ==
    {Resolved(w) : w \in WeiAmounts} \cup {Rejected(RpcError)}

\* eth_call results (raw token amounts, same representation as wei amounts):
\* nothing, 0.004, 0.005 and 5 units of a 6-decimals token.
RawTokenAmounts == {<<0, 0, 0>>, <<0, 0, 4000>>, <<0, 0, 5000>>, <<0, 5, 0>>}

Reverted == Rejected([isError |-> TRUE, message |-> "execution reverted"])

TokenOutcomes == {Resolved(r) : r \in RawTokenAmounts} \cup {Reverted}

\* The answers to the eth_calls of one fetchTokenBalances, in catalog order.
AllTokenBatches == [1..3 -> TokenOutcomes]

\* The batches the session runs are checked with: no contract answers, the
\* first one reverts, the second one holds nothing.
TokenBatches ==
    {<<Reverted, Reverted, Reverted>>,
     <<Reverted, Resolved(<<0, 5, 0>>), Resolved(<<0, 5, 0>>)>>,
     <<Resolved(<<0, 5, 0>>), Resolved(<<0, 0, 0>>), Resolved(<<0, 5, 0>>)>>}

\* Date.now() when the catch block of fetchTransactions runs: milliseconds
\* since the epoch (small readings, so that the products of formatTime stay
\* within TLC's integers; the readings of today are larger).
Now == 4000000

\* Raw records of the history service; timeStamp is a string of decimal
\* digits, the seconds since the epoch at which the block was mined.
RawTx(h, e) ==
    [hash |-> h, from |-> "0xA1", to |-> "0xC3", isError |-> e,
     timeStamp |-> <<1, 0, 0, 0>>]

\* Answers of fetch(): the fetch throws, or answers with an HTTP status and a
\* JSON body (status flag, result list or no result).
HistoryOutcomes ==
    {[throws |-> TRUE, httpOk |-> FALSE, status |-> "0", result |-> None, now |-> Now],
     [throws |-> FALSE, httpOk |-> FALSE, status |-> "0", result |-> None, now |-> Now],
     [throws |-> FALSE, httpOk |-> TRUE, status |-> "0", result |-> None, now |-> Now],
     [throws |-> FALSE, httpOk |-> TRUE, status |-> "1",
      result |-> Some(<<RawTx("0xh2", "0"), RawTx("0xh1", "1")>>), now |-> Now]}

\* Readings of Date.now() the catch block is checked with.
ClockReadings == {Now, Now + 1000, Now + 1000000}

\* Number of records the history service answers with at most.
MaxTxs == 11

TxHashes ==
    <<"0xh01", "0xh02", "0xh03", "0xh04", "0xh05", "0xh06", "0xh07",
      "0xh08", "0xh09", "0xh10", "0xh11", "0xh12", "0xh13", "0xh14">>

\* A result list of n records, most recent first (sort=desc), the f-th one
\* (none when f = 0) flagged as an error.
ServiceRecords(n, f) ==
    [k \in 1..n |-> RawTx(TxHashes[n - k + 1], IF k = f THEN "1" ELSE "0")]

\* Every answer of fetch() the history step is checked with: the four failing
\* ones (thrown, non-success status, status flag "0", no result list) and
\* result lists of 0..MaxTxs records.
AllHistoryOutcomes ==
    {[throws |-> TRUE, httpOk |-> FALSE, status |-> "0", result |-> None, now |-> Now],
     [throws |-> FALSE, httpOk |-> FALSE, status |-> "0", result |-> None, now |-> Now],
     [throws |-> FALSE, httpOk |-> TRUE, status |-> "0", result |-> None, now |-> Now],
     [throws |-> FALSE, httpOk |-> TRUE, status |-> "1", result |-> None, now |-> Now]}
        \cup {[throws |-> FALSE, httpOk |-> TRUE, status |-> "1",
               result |-> Some(ServiceRecords(n, f)), now |-> Now] :
                  n \in 0..MaxTxs, f \in 0..2}
        \cup {[throws |-> TRUE, httpOk |-> FALSE, status |-> "0", result |-> None,
               now |-> t] : t \in ClockReadings}

---------------------------------------------------------------------------
\* Pure helpers.

RECURSIVE HexPrefixValue(_, _)
HexPrefixValue(s, acc) ==
    IF s = <<>> \/ Head(s) > 15 THEN acc
    ELSE HexPrefixValue(Tail(s), acc * 16 + Head(s))

RECURSIVE DecPrefixValue(_, _)
DecPrefixValue(s, acc) ==
    IF s = <<>> \/ Head(s) > 9 THEN acc
    ELSE DecPrefixValue(Tail(s), acc * 10 + Head(s))

\* parseInt(s): the value of the longest decimal prefix, NaN when there is none.
ParseInt10(s) ==
    IF s = <<>> \/ Head(s) > 9 THEN NaN ELSE DecPrefixValue(s, 0)

\* parseInt(s, 16): the value of the longest hex prefix, NaN when there is none.
ParseInt16(s) ==
    IF s = <<>> \/ Head(s) > 15 THEN NaN ELSE HexPrefixValue(s, 0)

\* A fallback name that leaves the chain id out.
getNetworkNameNoId(chainId) ==
    CASE chainId = 1 -> <<"Ethereum Mainnet">>
      [] chainId = 3 -> <<"Ropsten Testnet">>
      [] chainId = 4 -> <<"Rinkeby Testnet">>
      [] chainId = 5 -> <<"Goerli Testnet">>
      [] chainId = 11155111 -> <<"Sepolia Testnet">>
      [] chainId = 137 -> <<"Polygon Mainnet">>
      [] chainId = 80001 -> <<"Mumbai Testnet">>
      [] chainId = 56 -> <<"BSC Mainnet">>
      [] chainId = 97 -> <<"BSC Testnet">>
      [] chainId = 42161 -> <<"Arbitrum One">>
      [] chainId = 10 -> <<"Optimism">>
      [] OTHER -> <<"Unknown Network">>

getNetworkName(chainId) ==
    CASE chainId = 1 -> <<"Ethereum Mainnet">>
      [] chainId = 3 -> <<"Ropsten Testnet">>
      [] chainId = 4 -> <<"Rinkeby Testnet">>
      [] chainId = 5 -> <<"Goerli Testnet">>
      [] chainId = 11155111 -> <<"Sepolia Testnet">>
      [] chainId = 137 -> <<"Polygon Mainnet">>
      [] chainId = 80001 -> <<"Mumbai Testnet">>
      [] chainId = 56 -> <<"BSC Mainnet">>
      [] chainId = 97 -> <<"BSC Testnet">>
      [] chainId = 42161 -> <<"Arbitrum One">>
      [] chainId = 10 -> <<"Optimism">>
      [] OTHER -> <<"Unknown Network (Chain ID: ", chainId, ")">>

\* Amounts are limbs <<hi, mid, lo>> standing for hi*10^12 + mid*10^6 + lo.
LimbsLess(a, b) ==
    \/ a[1] < b[1]
    \/ a[1] = b[1] /\ (a[2] < b[2] \/ (a[2] = b[2] /\ a[3] < b[3]))

DoubleLimbs(a) ==
    LET l == 2 * a[3]
        m == 2 * a[2] + l \div 1000000
    IN  <<2 * a[1] + m \div 1000000, m % 1000000, l % 1000000>>

\* a + delta, for a delta smaller than a limb.
AddToLimbs(a, delta) ==
    LET l  == a[3] + delta
        cl == IF l < 0 THEN -1 ELSE IF l >= 1000000 THEN 1 ELSE 0
        m  == a[2] + cl
        cm == IF m < 0 THEN -1 ELSE IF m >= 1000000 THEN 1 ELSE 0
    IN  <<a[1] + cm, m - cm * 1000000, l - cl * 1000000>>

\* A Number holds 53 significant bits: every integer below 2^53, every second
\* one below 2^54, and so on.
TwoPow53 == <<9007, 199254, 740992>>

\* The distance between neighbouring Numbers at the size of wei.
RECURSIVE UlpOf(_, _, _)
UlpOf(wei, bound, u) ==
    IF LimbsLess(wei, bound) THEN u ELSE UlpOf(wei, DoubleLimbs(bound), 2 * u)

\* parseInt(balanceWei, 16): the Number nearest to the integer the hex string
\* writes, the even one of two equally near (amounts below 2^64, where the
\* distance divides 10^12).
ParseIntDouble(wei) ==
    LET u    == UlpOf(wei, TwoPow53, 1)
        rem  == (wei[2] * (1000000 % u) + wei[3]) % u
        rem2 == (wei[2] * (1000000 % (2 * u)) + wei[3]) % (2 * u)
        down == AddToLimbs(wei, 0 - rem)
        up   == AddToLimbs(wei, u - rem)
    IN  IF 2 * rem < u THEN down
        ELSE IF 2 * rem > u THEN up
        ELSE IF rem2 = rem THEN down ELSE up

\* Twice a number written as limbs of 10^6, lowest first.
RECURSIVE DoubleFrom(_, _)
DoubleFrom(v, carry) ==
    IF v = <<>> THEN <<>>
    ELSE LET d == 2 * Head(v) + carry
         IN  <<d % 1000000>> \o DoubleFrom(Tail(v), d \div 1000000)

TwoPow52 == <<4503, 599627, 370496>>

\* v * 2^s for the s that brings v / 10^18 into [2^52, 2^53): the integer part
\* is then the 53-bit significand of the quotient, before rounding.
RECURSIVE Mantissa(_)
Mantissa(v) ==
    IF ~LimbsLess(<<v[6], v[5], v[4]>>, TwoPow52) THEN v
    ELSE Mantissa(DoubleFrom(v, 0))

\* Whether the Number that x / 1e18 yields is at least the exact quotient (the
\* division rounds to the nearest Number, the even one of two equally near).
QuotientNotBelow(x) ==
    LET v    == Mantissa(<<x[3], x[2], x[1] % 1000000, x[1] \div 1000000, 0, 0>>)
        rem  == <<v[3], v[2], v[1]>>
        half == <<500000, 0, 0>>
    IN  \/ rem = <<0, 0, 0>>
        \/ LimbsLess(half, rem)
        \/ rem = half /\ v[4] % 2 = 1

\* (parseInt(balanceWei, 16) / 1e18).toFixed(6), as a count of millionths of
\* an ETH. toFixed rounds the Number it is given to the nearest millionth,
\* upwards from the middle; the error of the division (at most half the
\* distance between Numbers) changes the side only of an amount that is
\* exactly in the middle.
ToFixed6(wei) ==
    LET x == ParseIntDouble(wei)
    IN  x[1] + (IF \/ x[2] > 500000
                   \/ x[2] = 500000 /\ (x[3] > 0 \/ QuotientNotBelow(x))
                THEN 1 ELSE 0)

\* A test that lets a zero amount through (balance >= 0).
IsNotNegative(raw) == raw[1] >= 0 /\ raw[2] >= 0 /\ raw[3] >= 0

\* raw / 10^decimals > 0
IsPositive(raw) == raw[1] > 0 \/ raw[2] > 0 \/ raw[3] > 0

\* (raw / 10^decimals).toFixed(2), as a count of hundredths, for the two
\* decimals of the catalog.
ToFixed2(raw, decimals) ==
    IF decimals = 6
    THEN raw[1] * 100000000 + raw[2] * 100
            + (raw[3] \div 10000) + (IF raw[3] % 10000 >= 5000 THEN 1 ELSE 0)
    ELSE (raw[1] \div 10000) + (IF raw[1] % 10000 >= 5000 THEN 1 ELSE 0)

tokens ==
    << [symbol |-> "USDC", contractAddress |-> "0xA0b86a33E6417c5c7c4c4c4c4c4c4c4c4c4c4c4c", decimals |-> 6],
       [symbol |-> "USDT", contractAddress |-> "0xdAC17F958D2ee523a2206206994597C13D831ec7", decimals |-> 6],
       [symbol |-> "DAI", contractAddress |-> "0x6B175474E89094C44Da98b954EedeAC495271d0F", decimals |-> 18] >>

\* formatTime: new Date(timestamp * 1000), the instant shown, in milliseconds
\* since the epoch.
formatTime(timestamp) == timestamp * 1000

\* !walletState.chainId: null, 0 and NaN are falsy.
ChainIdFalsy(chainId) == chainId = None \/ chainId = Some(0) \/ chainId = Some(NaN)

\* openInExplorer: the URL handed to window.open, <<base, path, address>>, or
\* nothing when the handler returns at its first line.
openInExplorer(ws) ==
    IF ws.address = None \/ ChainIdFalsy(ws.chainId) THEN None
    ELSE Some(<<CASE ws.chainId[1] = 1 -> "https://etherscan.io"
                  [] ws.chainId[1] = 137 -> "https://polygonscan.com"
                  [] ws.chainId[1] = 56 -> "https://bscscan.com"
                  [] OTHER -> "https://etherscan.io",
                "/address/", ws.address[1]>>)

\* openTransactionInExplorer: the URL handed to window.open.
openTransactionInExplorer(ws, hash) ==
    Some(<<IF ws.chainId = Some(1) THEN "https://etherscan.io"
           ELSE IF ws.chainId = Some(137) THEN "https://polygonscan.com"
           ELSE "https://etherscan.io",
           "/tx/", hash>>)

---------------------------------------------------------------------------
\* State written by the handlers.

DefaultWalletState ==
    [isConnected |-> FALSE, address |-> None, balance |-> None, network |-> None,
     chainId |-> None, isLoading |-> FALSE, error |-> None]

\* A first statement that leaves the earlier error in place.
LoadingStateKeepsError(prev) == [prev EXCEPT !.isLoading = TRUE]

\* connectWallet, first statement: prev => ({...prev, isLoading: true, error: null})
LoadingState(prev) == [prev EXCEPT !.isLoading = TRUE, !.error = None]

\* connectWallet, the state written once accounts, chain id and balance are in.
ConnectedState(address, chainIdHex, balanceWei) ==
    [isConnected |-> TRUE,
     address |-> Some(address),
     balance |-> Some(ToFixed6(balanceWei)),
     network |-> Some(getNetworkName(ParseInt16(chainIdHex))),
     chainId |-> Some(ParseInt16(chainIdHex)),
     isLoading |-> FALSE,
     error |-> None]

\* error instanceof Error ? error.message : 'Failed to connect wallet'
ErrorMessage(thrown) ==
    IF thrown.isError THEN thrown.message ELSE "Failed to connect wallet"

\* A catch block that resets the session instead of spreading prev.
ConnectFailedStateReset(prev, errorMessage) ==
    [isConnected |-> FALSE, address |-> None, balance |-> None, network |-> None,
     chainId |-> None, isLoading |-> FALSE, error |-> Some(errorMessage)]

\* A catch block that leaves the loading flag up.
ConnectFailedStateLoading(prev, errorMessage) ==
    [prev EXCEPT !.error = Some(errorMessage)]

\* connectWallet, catch: prev => ({...prev, isLoading: false, error: errorMessage})
ConnectFailedState(prev, errorMessage) ==
    [prev EXCEPT !.isLoading = FALSE, !.error = Some(errorMessage)]

\* A disconnect that forgets to reset the balance.
DisconnectedStateKeepsBalance ==
    [isConnected |-> FALSE, address |-> None, balance |-> walletState.balance,
     network |-> None, chainId |-> None, isLoading |-> FALSE, error |-> None]

\* disconnectWallet: the state it sets.
DisconnectedState ==
    [isConnected |-> FALSE, address |-> None, balance |-> None, network |-> None,
     chainId |-> None, isLoading |-> FALSE, error |-> None]

\* An update that forgets to spread prev.
RefreshedStateNoSpread(prev, balanceWei) ==
    [DefaultWalletState EXCEPT !.balance = Some(ToFixed6(balanceWei))]

\* refreshWalletData: prev => ({...prev, balance: balanceEth.toFixed(6)})
RefreshedState(prev, balanceWei) ==
    [prev EXCEPT !.balance = Some(ToFixed6(balanceWei))]

\* fetchTokenBalances, one pass of the loop body over `token` with the eth_call
\* answering `out`: the balances array afterwards.
TokenLoopBody(balances, token, out) ==
    IF out.ok /\ IsPositive(out.value)
    THEN Append(balances,
                [symbol |-> token.symbol,
                 balance |-> ToFixed2(out.value, token.decimals),
                 decimals |-> token.decimals,
                 contractAddress |-> token.contractAddress])
    ELSE balances

\* A loop whose try/catch is around the loop, not in it: the first failing
\* call ends it.
RECURSIVE TokenLoopAborting(_, _, _)
TokenLoopAborting(k, balances, outs) ==
    IF k > Len(tokens) \/ ~outs[k].ok THEN balances
    ELSE TokenLoopAborting(k + 1, TokenLoopBody(balances, tokens[k], outs[k]), outs)

\* fetchTokenBalances, the for loop from token k on, the eth_calls answering
\* outs: the balances array when the loop ends.
RECURSIVE TokenLoop(_, _, _)
TokenLoop(k, balances, outs) ==
    IF k > Len(tokens) THEN balances
    ELSE TokenLoop(k + 1, TokenLoopBody(balances, tokens[k], outs[k]), outs)

\* A mapping that reads the error flag the wrong way round.
FormatTxInverted(tx) ==
    [hash |-> tx.hash, from |-> tx.from, to |-> tx.to,
     timestamp |-> ParseInt10(tx.timeStamp),
     status |-> IF tx.isError = "0" THEN "failed" ELSE "success"]

\* fetchTransactions, the record built from one raw record.
FormatTx(tx) ==
    [hash |-> tx.hash, from |-> tx.from, to |-> tx.to,
     timestamp |-> ParseInt10(tx.timeStamp),
     status |-> IF tx.isError = "0" THEN "success" ELSE "failed"]

\* A map over the whole result, without the slice.
FormattedTransactionsAll(result) ==
    [k \in 1..Len(result) |-> FormatTx(result[k])]

\* data.result.slice(0, 10).map(...)
FormattedTransactions(result) ==
    [k \in 1..(IF Len(result) < 10 THEN Len(result) ELSE 10) |-> FormatTx(result[k])]

\* A mock list whose record is still pending.
MockTransactionsPending(address, now) ==
    << [hash |-> "0x1234567890abcdef1234567890abcdef12345678",
        from |-> address,
        to |-> "0x9876543210fedcba9876543210fedcba98765432",
        timestamp |-> now - 3600000,
        status |-> "pending"] >>

\* fetchTransactions, catch: the mock list.
MockTransactions(address, now) ==
    << [hash |-> "0x1234567890abcdef1234567890abcdef12345678",
        from |-> address,
        to |-> "0x9876543210fedcba9876543210fedcba98765432",
        timestamp |-> now - 3600000,
        status |-> "success"] >>

\* fetchTransactions: the URL handed to fetch(), the API key left out.
TxListUrl(address) ==
    <<"https://api.etherscan.io/api", "?module=account&action=txlist&address=",
      address, "&sort=desc&apikey=">>

\* fetchTransactions: the transaction list after the fetch answered `out`.
TransactionsAfter(prev, address, out) ==
    IF out.throws THEN MockTransactions(address, out.now)
    ELSE IF out.httpOk /\ out.status = "1" /\ out.result # None
         THEN FormattedTransactions(out.result[1])
         ELSE prev

---------------------------------------------------------------------------
\* Invocations.  A suspended invocation is its locals and pc, the request it
\* waits for; `ops` is the bag of them.  The eth_calls of the token loop touch
\* no shared state between them and are answered in one step.

Op(kind, pc, address, chainId) ==
    [kind |-> kind, pc |-> pc, address |-> address, chainId |-> chainId]

Suspend(op) == ops (+) SetToBag({op})
Resume(op, next) == (ops (-) SetToBag({op})) (+) SetToBag({next})
Return(op) == ops (-) SetToBag({op})

Waiting == BagToSet(ops)
CanInvoke == BagCardinality(ops) < MaxOps

Init ==
    /\ hasProvider \in BOOLEAN
    /\ probe = "init"
    /\ walletState = DefaultWalletState
    /\ tokenBalances = <<>>
    /\ transactions = <<>>
    /\ isRefreshing = FALSE
    /\ ops = EmptyBag
    /\ last = Step("init", "none", None, None, <<>>, "running")

---------------------------------------------------------------------------
\* connectWallet

\* Without window.ethereum the request expression throws a TypeError inside
\* the try, and the catch runs at once.
NoProviderError ==
    [isError |-> TRUE, message |-> "Cannot read properties of undefined (reading 'request')"]

\* A handler that returns without a word when no provider is injected.
ConnectStartSilent(act) ==
    IF hasProvider
    THEN /\ walletState' = LoadingState(walletState)
         /\ ops' = Suspend(Op("connect", "accounts", None, None))
         /\ last' = Step(act, "connect", None, None, <<"eth_requestAccounts">>, "running")
    ELSE /\ walletState' = LoadingState(walletState)
         /\ UNCHANGED ops
         /\ last' = Step(act, "connect", None, None, <<>>, "failed")

\* connectWallet up to its first await.
ConnectStart(act) ==
    IF hasProvider
    THEN /\ walletState' = LoadingState(walletState)
         /\ ops' = Suspend(Op("connect", "accounts", None, None))
         /\ last' = Step(act, "connect", None, None, <<"eth_requestAccounts">>, "running")
    ELSE /\ walletState' = ConnectFailedState(LoadingState(walletState),
                                              ErrorMessage(NoProviderError))
         /\ UNCHANGED ops
         /\ last' = Step(act, "connect", Rejected(NoProviderError), None, <<>>, "failed")

\* connectWallet, catch block.
ConnectCatch(act, op, out, thrown) ==
    /\ walletState' = ConnectFailedState(walletState, ErrorMessage(thrown))
    /\ ops' = Return(op)
    /\ last' = Step(act, "connect", out, op.address, <<>>, "failed")

\* The connect button: rendered while !isConnected, disabled while isLoading.
ConnectClick ==
    /\ probe # "init"
    /\ ~walletState.isConnected
    /\ ~walletState.isLoading
    /\ CanInvoke
    /\ ConnectStart("connectClick")
    /\ UNCHANGED <<hasProvider, probe, tokenBalances, transactions, isRefreshing>>

\* A handler that takes the last account of the list, not accounts[0].
ConnectAccountsLast(op, out) ==
    /\ op.kind = "connect" /\ op.pc = "accounts"
    /\ IF ~out.ok
       THEN ConnectCatch("connectAccounts", op, out, out.thrown)
       ELSE IF Len(out.value) = 0
       THEN ConnectCatch("connectAccounts", op, out,
                         [isError |-> TRUE, message |-> "No accounts found"])
       ELSE /\ ops' = Resume(op, Op("connect", "chainId", Some(out.value[Len(out.value)]), None))
            /\ last' = Step("connectAccounts", "connect", out, Some(out.value[Len(out.value)]),
                            <<"eth_chainId">>, "running")
            /\ UNCHANGED walletState
    /\ UNCHANGED <<hasProvider, probe, tokenBalances, transactions, isRefreshing>>

\* eth_requestAccounts answers.
ConnectAccounts(op, out) ==
    /\ op.kind = "connect" /\ op.pc = "accounts"
    /\ IF ~out.ok
       THEN ConnectCatch("connectAccounts", op, out, out.thrown)
       ELSE IF Len(out.value) = 0
       THEN ConnectCatch("connectAccounts", op, out,
                         [isError |-> TRUE, message |-> "No accounts found"])
       ELSE /\ ops' = Resume(op, Op("connect", "chainId", Some(out.value[1]), None))
            /\ last' = Step("connectAccounts", "connect", out, Some(out.value[1]),
                            <<"eth_chainId">>, "running")
            /\ UNCHANGED walletState
    /\ UNCHANGED <<hasProvider, probe, tokenBalances, transactions, isRefreshing>>

\* eth_chainId answers.
ConnectChainId(op, out) ==
    /\ op.kind = "connect" /\ op.pc = "chainId"
    /\ IF ~out.ok
       THEN ConnectCatch("connectChainId", op, out, out.thrown)
       ELSE /\ ops' = Resume(op, Op("connect", "balance", op.address, Some(out.value)))
            /\ last' = Step("connectChainId", "connect", out, op.address,
                            <<"eth_getBalance">>, "running")
            /\ UNCHANGED walletState
    /\ UNCHANGED <<hasProvider, probe, tokenBalances, transactions, isRefreshing>>

\* eth_getBalance answers: the session is written, fetchTokenBalances starts.
ConnectBalance(op, out) ==
    /\ op.kind = "connect" /\ op.pc = "balance"
    /\ IF ~out.ok
       THEN ConnectCatch("connectBalance", op, out, out.thrown)
       ELSE /\ walletState' = ConnectedState(op.address[1], op.chainId[1], out.value)
            /\ ops' = Resume(op, Op("connect", "tokens", op.address, None))
            /\ last' = Step("connectBalance", "connect", out, op.address,
                            <<"eth_call">>, "running")
    /\ UNCHANGED <<hasProvider, probe, tokenBalances, transactions, isRefreshing>>

---------------------------------------------------------------------------
\* fetchTokenBalances and fetchTransactions, called by connect and by refresh.

\* The eth_calls answer; the list is stored and fetchTransactions sends its
\* request.
TokensReturn(op, outs) ==
    /\ op.pc = "tokens"
    /\ tokenBalances' = TokenLoop(1, <<>>, outs)
    /\ ops' = Resume(op, Op(op.kind, "history", op.address, None))
    /\ last' = Step("tokensReturn", op.kind, outs, op.address,
                    <<"eth_call", "eth_call", "txlist">>, "running")
    /\ UNCHANGED <<hasProvider, probe, walletState, transactions, isRefreshing>>

\* The history fetch answers; the calling handler then runs to its end
\* (refreshWalletData: finally setIsRefreshing(false)).
HistoryReturn(op, out) ==
    /\ op.pc = "history"
    /\ transactions' = TransactionsAfter(transactions, op.address[1], out)
    /\ ops' = Return(op)
    /\ isRefreshing' = IF op.kind = "refresh" THEN FALSE ELSE isRefreshing
    /\ last' = Step("historyReturn", op.kind, out, op.address, <<>>, "done")
    /\ UNCHANGED <<hasProvider, probe, walletState, tokenBalances>>

---------------------------------------------------------------------------
\* checkWalletConnection (mount effect)

ProbeStart ==
    /\ probe = "init"
    /\ probe' = IF hasProvider THEN "accounts" ELSE "done"
    /\ last' = Step("probeStart", "none", None, None,
                    IF hasProvider THEN <<"eth_accounts">> ELSE <<>>, "running")
    /\ UNCHANGED <<hasProvider, walletState, tokenBalances, transactions,
                   isRefreshing, ops>>

\* eth_accounts answers: with an account it calls connectWallet().
ProbeReturn(out) ==
    /\ probe = "accounts"
    /\ probe' = "done"
    /\ IF out.ok /\ Len(out.value) > 0
       THEN /\ CanInvoke
            /\ ConnectStart("probeConnect")
       ELSE /\ UNCHANGED <<walletState, ops>>
            /\ last' = Step("probeReturn", "none", out, None, <<>>, "done")
    /\ UNCHANGED <<hasProvider, tokenBalances, transactions, isRefreshing>>

---------------------------------------------------------------------------
\* refreshWalletData

\* The refresh button: rendered while isConnected, disabled while isRefreshing.
RefreshClick ==
    /\ walletState.isConnected
    /\ ~isRefreshing
    /\ walletState.address # None
    /\ CanInvoke
    /\ isRefreshing' = TRUE
    /\ ops' = Suspend(Op("refresh", "balance", walletState.address, None))
    /\ last' = Step("refreshClick", "refresh", None, walletState.address,
                    <<"eth_getBalance">>, "running")
    /\ UNCHANGED <<hasProvider, probe, walletState, tokenBalances, transactions>>

\* A catch block that drops the balance shown when the request fails.
RefreshBalanceClearing(op, out) ==
    /\ op.kind = "refresh" /\ op.pc = "balance"
    /\ IF ~out.ok
       THEN /\ isRefreshing' = FALSE
            /\ ops' = Return(op)
            /\ last' = Step("refreshBalance", "refresh", out, op.address, <<>>, "failed")
            /\ walletState' = [walletState EXCEPT !.balance = None]
       ELSE /\ walletState' = RefreshedState(walletState, out.value)
            /\ ops' = Resume(op, Op("refresh", "tokens", op.address, None))
            /\ last' = Step("refreshBalance", "refresh", out, op.address,
                            <<"eth_call">>, "running")
            /\ UNCHANGED isRefreshing
    /\ UNCHANGED <<hasProvider, probe, tokenBalances, transactions>>

\* eth_getBalance answers.
RefreshBalance(op, out) ==
    /\ op.kind = "refresh" /\ op.pc = "balance"
    /\ IF ~out.ok
       THEN /\ isRefreshing' = FALSE
            /\ ops' = Return(op)
            /\ last' = Step("refreshBalance", "refresh", out, op.address, <<>>, "failed")
            /\ UNCHANGED walletState
       ELSE /\ walletState' = RefreshedState(walletState, out.value)
            /\ ops' = Resume(op, Op("refresh", "tokens", op.address, None))
            /\ last' = Step("refreshBalance", "refresh", out, op.address,
                            <<"eth_call">>, "running")
            /\ UNCHANGED isRefreshing
    /\ UNCHANGED <<hasProvider, probe, tokenBalances, transactions>>

---------------------------------------------------------------------------
\* disconnectWallet: the disconnect button, rendered while isConnected.
DisconnectClick ==
    /\ walletState.isConnected
    /\ walletState' = DisconnectedState
    /\ tokenBalances' = <<>>
    /\ transactions' = <<>>
    /\ last' = Step("disconnect", "none", None, None, <<>>, "done")
    /\ UNCHANGED <<hasProvider, probe, isRefreshing, ops>>

---------------------------------------------------------------------------
Next ==
    \/ ProbeStart
    \/ \E out \in AccountsOutcomes : ProbeReturn(out)
    \/ ConnectClick
    \/ \E op \in Waiting, out \in AccountsOutcomes : ConnectAccounts(op, out)
    \/ \E op \in Waiting, out \in ChainIdOutcomes : ConnectChainId(op, out)
    \/ \E op \in Waiting, out \in BalanceOutcomes : ConnectBalance(op, out)
    \/ \E op \in Waiting, outs \in TokenBatches : TokensReturn(op, outs)
    \/ \E op \in Waiting, out \in HistoryOutcomes : HistoryReturn(op, out)
    \/ RefreshClick
    \/ \E op \in Waiting, out \in BalanceOutcomes : RefreshBalance(op, out)
    \/ DisconnectClick

Spec == Init /\ [][Next]_vars

---------------------------------------------------------------------------
\* The same program when every request that was sent is eventually answered:
\* the promise an invocation awaits settles, and the invocation resumes.  The
\* answers are one of each kind the handlers distinguish.

LiveAccounts == {Resolved(a) : a \in AccountLists} \cup {Rejected(UserRejection)}
LiveChainIds == {Resolved(<<1>>), Rejected(RpcError)}
LiveBalances == {Resolved(<<1000000, 0, 0>>), Rejected(RpcError)}
LiveTokens == {<<Reverted, Resolved(<<0, 5, 0>>), Reverted>>}
LiveHistory ==
    {[throws |-> TRUE, httpOk |-> FALSE, status |-> "0", result |-> None, now |-> Now],
     [throws |-> FALSE, httpOk |-> TRUE, status |-> "1",
      result |-> Some(<<RawTx("0xh1", "0")>>), now |-> Now]}

\* The invocations that can be suspended.
OpValues ==
    {Op(kind, pc, address, chainId) :
        kind \in {"connect", "refresh"},
        pc \in {"accounts", "chainId", "balance", "tokens", "history"},
        address \in {None} \cup {Some(a) : a \in Addresses},
        chainId \in {None, Some(<<1>>)}}

\* The awaited request of invocation op answers.
Respond(op) ==
    \/ \E out \in LiveAccounts : ConnectAccounts(op, out)
    \/ \E out \in LiveChainIds : ConnectChainId(op, out)
    \/ \E out \in LiveBalances : ConnectBalance(op, out)
    \/ \E outs \in LiveTokens : TokensReturn(op, outs)
    \/ \E out \in LiveHistory : HistoryReturn(op, out)
    \/ \E out \in LiveBalances : RefreshBalance(op, out)

NextLive ==
    \/ ProbeStart
    \/ \E out \in LiveAccounts : ProbeReturn(out)
    \/ ConnectClick
    \/ RefreshClick
    \/ DisconnectClick
    \/ \E op \in Waiting : Respond(op)

\* Each answering step changes probe, respectively ops.
Answered ==
    /\ WF_probe(ProbeStart)
    /\ WF_probe(\E out \in LiveAccounts : ProbeReturn(out))
    /\ \A op \in OpValues : WF_ops(op \in Waiting /\ Respond(op))

FairSpec == Init /\ [][NextLive]_vars /\ Answered

---------------------------------------------------------------------------
\* fetchTokenBalances on its own: an invocation suspended in the token loop of
\* a connected session, answered by every batch of eth_call answers.

InitTokens ==
    \E a \in Addresses, h \in ChainIdHex, w \in WeiAmounts, kind \in {"connect", "refresh"} :
        /\ hasProvider = TRUE
        /\ probe = "done"
        /\ walletState = ConnectedState(a, h, w)
        /\ tokenBalances = <<>>
        /\ transactions = <<>>
        /\ isRefreshing = (kind = "refresh")
        /\ ops = SetToBag({Op(kind, "tokens", Some(a), None)})
        /\ last = Step(IF kind = "connect" THEN "connectBalance" ELSE "refreshBalance",
                       kind, Resolved(w), Some(a), <<"eth_call">>, "running")

NextTokens ==
    \/ \E op \in Waiting, outs \in AllTokenBatches : TokensReturn(op, outs)
    \/ \E op \in Waiting, out \in HistoryOutcomes : HistoryReturn(op, out)

SpecTokens == InitTokens /\ [][NextTokens]_vars

---------------------------------------------------------------------------
\* fetchTransactions on its own: an invocation suspended at the history fetch
\* of a connected session that holds nothing, the mock list or the records of
\* an earlier fetch, answered by every answer of the service.

InitHistory ==
    \E a \in Addresses, h \in ChainIdHex, kind \in {"connect", "refresh"} :
    \E held \in {<<>>, MockTransactions(a, Now), FormattedTransactions(ServiceRecords(2, 1))} :
        /\ hasProvider = TRUE
        /\ probe = "done"
        /\ walletState = ConnectedState(a, h, <<1000000, 0, 0>>)
        /\ tokenBalances = <<>>
        /\ transactions = held
        /\ isRefreshing = (kind = "refresh")
        /\ ops = SetToBag({Op(kind, "history", Some(a), None)})
        /\ last = Step("tokensReturn", kind, <<Reverted, Reverted, Reverted>>, Some(a),
                       <<"eth_call", "eth_call", "txlist">>, "running")

NextHistory ==
    \E op \in Waiting, out \in AllHistoryOutcomes : HistoryReturn(op, out)

SpecHistory == InitHistory /\ [][NextHistory]_vars

---------------------------------------------------------------------------
\* connectWallet from its eth_chainId request on, the provider answering with
\* every shape of chain id.

InitParse ==
    \E a \in Addresses :
        /\ hasProvider = TRUE
        /\ probe = "done"
        /\ walletState = LoadingState(DefaultWalletState)
        /\ tokenBalances = <<>>
        /\ transactions = <<>>
        /\ isRefreshing = FALSE
        /\ ops = SetToBag({Op("connect", "chainId", Some(a), None)})
        /\ last = Step("connectAccounts", "connect", Resolved(<<a>>), Some(a),
                       <<"eth_chainId">>, "running")

NextParse ==
    \/ \E op \in Waiting, h \in AllChainIdHex : ConnectChainId(op, Resolved(h))
    \/ \E op \in Waiting, out \in BalanceOutcomes : ConnectBalance(op, out)
    \/ \E op \in Waiting, outs \in TokenBatches : TokensReturn(op, outs)
    \/ \E op \in Waiting, out \in HistoryOutcomes : HistoryReturn(op, out)

SpecParse == InitParse /\ [][NextParse]_vars

---------------------------------------------------------------------------
\* The explorer buttons of the connected view.  window.open is recorded as
\* what the step sent.

OpenInExplorerClick ==
    /\ walletState.isConnected
    /\ last' = Step("openInExplorer", "none", None, walletState.address,
                    openInExplorer(walletState), "done")
    /\ UNCHANGED <<hasProvider, probe, walletState, tokenBalances, transactions,
                   isRefreshing, ops>>

OpenTransactionClick ==
    /\ walletState.isConnected
    /\ \E k \in 1..Len(transactions) :
          last' = Step("openTransactionInExplorer", "none", None, walletState.address,
                       openTransactionInExplorer(walletState, transactions[k].hash), "done")
    /\ UNCHANGED <<hasProvider, probe, walletState, tokenBalances, transactions,
                   isRefreshing, ops>>

\* connectWallet from its eth_getBalance request on, for every chain id the
\* provider reported, and the explorer buttons of the session it leaves.

InitChains ==
    \E a \in Addresses, c \in ChainIds :
        /\ hasProvider = TRUE
        /\ probe = "done"
        /\ walletState = LoadingState(DefaultWalletState)
        /\ tokenBalances = <<>>
        /\ transactions = <<>>
        /\ isRefreshing = FALSE
        /\ ops = SetToBag({Op("connect", "balance", Some(a), Some(HexDigits(c)))})
        /\ last = Step("connectChainId", "connect", Resolved(HexDigits(c)), Some(a),
                       <<"eth_getBalance">>, "running")

NextChains ==
    \/ \E op \in Waiting : ConnectBalance(op, Resolved(<<1000000, 0, 0>>))
    \/ \E op \in Waiting : TokensReturn(op, <<Reverted, Reverted, Reverted>>)
    \/ \E op \in Waiting, out \in HistoryOutcomes : HistoryReturn(op, out)
    \/ OpenInExplorerClick
    \/ OpenTransactionClick

SpecChains == InitChains /\ [][NextChains]_vars

---------------------------------------------------------------------------
\* The conversions on their own: eth_getBalance of a connect or a refresh
\* answers with amounts at and next to the middle between two displayed
\* values, below and above 2^53, and the token contracts with every batch.

MaxDelta == 2

MiddleAmounts == {<<0, 500000, 0>>, <<9007, 500000, 0>>, <<1000000, 500000, 0>>}

AllWeiAmounts ==
    WeiAmounts \cup {<<0, 0, 0>>, <<0, 0, 1>>}
        \cup {AddToLimbs(m, d) : m \in MiddleAmounts, d \in (0 - MaxDelta)..MaxDelta}

InitUnits ==
    \E a \in Addresses, kind \in {"connect", "refresh"} :
        /\ hasProvider = TRUE
        /\ probe = "done"
        /\ walletState = IF kind = "connect" THEN LoadingState(DefaultWalletState)
                         ELSE ConnectedState(a, <<1>>, <<1000000, 0, 0>>)
        /\ tokenBalances = <<>>
        /\ transactions = <<>>
        /\ isRefreshing = (kind = "refresh")
        /\ ops = SetToBag({Op(kind, "balance", Some(a),
                              IF kind = "connect" THEN Some(<<1>>) ELSE None)})
        /\ last = IF kind = "connect"
                  THEN Step("connectChainId", "connect", Resolved(<<1>>), Some(a),
                            <<"eth_getBalance">>, "running")
                  ELSE Step("refreshClick", "refresh", None, Some(a),
                            <<"eth_getBalance">>, "running")

NextUnits ==
    \/ \E op \in Waiting, w \in AllWeiAmounts : ConnectBalance(op, Resolved(w))
    \/ \E op \in Waiting, w \in AllWeiAmounts : RefreshBalance(op, Resolved(w))
    \/ \E op \in Waiting, outs \in AllTokenBatches : TokensReturn(op, outs)
    \/ \E op \in Waiting, out \in HistoryOutcomes : HistoryReturn(op, out)

SpecUnits == InitUnits /\ [][NextUnits]_vars

---------------------------------------------------------------------------
\* Retries: the session right after a connect() failed (no provider, the
\* request rejected, or no account returned), and everything the user and
\* the provider do from there.

InitRetry ==
    \E p \in BOOLEAN, out \in {o \in LiveAccounts : ~o.ok \/ o.value = <<>>} :
        LET thrown == IF ~p THEN NoProviderError
                      ELSE IF ~out.ok THEN out.thrown
                      ELSE [isError |-> TRUE, message |-> "No accounts found"]
        IN  /\ hasProvider = p
            /\ probe = "done"
            /\ walletState = ConnectFailedState(LoadingState(DefaultWalletState),
                                                ErrorMessage(thrown))
            /\ tokenBalances = <<>>
            /\ transactions = <<>>
            /\ isRefreshing = FALSE
            /\ ops = EmptyBag
            /\ last = IF p THEN Step("connectAccounts", "connect", out, None, <<>>, "failed")
                      ELSE Step("connectClick", "connect", Rejected(NoProviderError),
                                None, <<>>, "failed")

NextRetry ==
    \/ ConnectClick
    \/ RefreshClick
    \/ DisconnectClick
    \/ \E op \in Waiting : Respond(op)

SpecRetry == InitRetry /\ [][NextRetry]_vars

---------------------------------------------------------------------------
\* Properties.

Present(field) == field # None

\* C1: the session fields address, nativeBalance, networkName and chainId are
\* all present with connected=true or all absent with connected=false, in
\* every reachable state.
C1_SessionFieldsTogether ==
    \/ /\ walletState.isConnected
       /\ Present(walletState.address) /\ Present(walletState.balance)
       /\ Present(walletState.network) /\ Present(walletState.chainId)
    \/ /\ ~walletState.isConnected
       /\ ~Present(walletState.address) /\ ~Present(walletState.balance)
       /\ ~Present(walletState.network) /\ ~Present(walletState.chainId)

\* C2: operations are serialized: at most one connect() or refresh() is in
\* progress at any time, and no disconnect() is accepted while one is.
C2_OperationsSerialized ==
    /\ BagCardinality(ops) <= 1
    /\ last.act = "disconnect" => ops = EmptyBag

\* C3: the startup probe sends no eth_requestAccounts: every request sent on
\* the startup path (the mount effect and what it calls) is another one.
C3_ProbeNeverPrompts ==
    last.act \in {"probeStart", "probeReturn", "probeConnect"}
        => \A k \in 1..Len(last.sent) : last.sent[k] # "eth_requestAccounts"

\* C4: right after disconnect(), from any prior state, the session is the
\* default disconnected shape and both lists are empty.
C4_DisconnectResets ==
    last.act = "disconnect"
        => /\ walletState = DefaultWalletState
           /\ tokenBalances = <<>>
           /\ transactions = <<>>

\* C4 witness: a disconnect taken while a refresh and a connect's enrichment
\* were both still in flight.
C4_Witness ==
    /\ last.act = "disconnect"
    /\ isRefreshing
    /\ BagCardinality(ops) = 2

\* The message a failed connect step reports: the thrown Error's message, the
\* fixed text for other thrown values, "No accounts found" for an empty list.
FailureMessage(step) ==
    IF step.out.ok THEN "No accounts found"
    ELSE IF step.out.thrown.isError THEN step.out.thrown.message
    ELSE "Failed to connect wallet"

\* C5: right after a connect() attempt fails, connected=false, loading=false
\* and error is the failure's message, in every interleaving.
C5_FailedConnectIsError ==
    (last.kind = "connect" /\ last.end = "failed")
        => /\ ~walletState.isConnected
           /\ ~walletState.isLoading
           /\ walletState.error = Some(FailureMessage(last))

\* C6: a connect() whose accounts request returns an empty list fails with
\* "No accounts found", sends no further request, and leaves the session
\* Disconnected (connected=false, no address).
C6_NoAccountsLeavesDisconnected ==
    (last.act = "connectAccounts" /\ last.out.ok /\ last.out.value = <<>>)
        => /\ last.end = "failed"
           /\ last.sent = <<>>
           /\ walletState.error = Some("No accounts found")
           /\ ~walletState.isConnected
           /\ walletState.address = None

\* The steps of a connect() that has not got its native balance yet.
BeforeSessionWrite(step) ==
    \/ step.act \in {"connectClick", "probeConnect", "connectAccounts", "connectChainId"}
    \/ step.act = "connectBalance" /\ step.end = "failed"

\* C7: a connect() that fails at the accounts, chain-id or native-balance step
\* changes nothing except loading and error: none of its steps, the failing
\* one included, changes connected, address, nativeBalance, networkName,
\* chainId, the token-balance list or the transaction list.
C7_FailedConnectFrame ==
    [][BeforeSessionWrite(last')
        => /\ walletState'.isConnected = walletState.isConnected
           /\ walletState'.address = walletState.address
           /\ walletState'.balance = walletState.balance
           /\ walletState'.network = walletState.network
           /\ walletState'.chainId = walletState.chainId
           /\ tokenBalances' = tokenBalances
           /\ transactions' = transactions]_vars

\* C7 witness: a connect() has just failed at the native-balance step while
\* the session held the data of another connect().
C7_Witness ==
    /\ last.act = "connectBalance" /\ last.end = "failed"
    /\ walletState.isConnected
    /\ tokenBalances # <<>>
    /\ walletState.error = Some("Internal JSON-RPC error.")

\* C8: when accounts, chain id and native balance succeeded, connect() ends
\* with connected=true and error absent whatever the token calls and the
\* history fetch answered.
C8_EnrichmentNeverFailsConnect ==
    (last.act = "historyReturn" /\ last.kind = "connect")
        => /\ last.end = "done"
           /\ walletState.isConnected
           /\ walletState.error = None

\* The catalog entries a batch of answers must yield: those whose call did not
\* fail and whose raw amount is not zero, in catalog order.
Surfaced(outs) ==
    SelectSeq(<<1, 2, 3>>, LAMBDA k : outs[k].ok /\ outs[k].value # <<0, 0, 0>>)

\* C9: in a token-balance batch a token whose call fails is omitted and every
\* other catalog token is still reported: for every set of failing tokens the
\* stored list is exactly the catalog tokens outside it with a positive
\* balance.
C9_FailedTokensOmitted ==
    last.act = "tokensReturn"
        => /\ Len(tokenBalances) = Len(Surfaced(last.out))
           /\ \A n \in 1..Len(tokenBalances) :
                /\ tokenBalances[n].symbol = tokens[Surfaced(last.out)[n]].symbol
                /\ tokenBalances[n].contractAddress
                      = tokens[Surfaced(last.out)[n]].contractAddress

\* C9 witness: three positive balances, the first call fails, two results.
C9_Witness ==
    /\ last.act = "tokensReturn"
    /\ ~last.out[1].ok
    /\ last.out[2].ok /\ last.out[2].value # <<0, 0, 0>>
    /\ last.out[3].ok /\ last.out[3].value # <<0, 0, 0>>
    /\ Len(tokenBalances) = 2

\* C10: when the history fetch throws, the transaction list becomes exactly
\* one placeholder record with status success and from = the queried address,
\* and the calling connect() or refresh() returns normally.
C10_HistoryFailurePlaceholder ==
    (last.act = "historyReturn" /\ last.out.throws)
        => /\ Len(transactions) = 1
           /\ transactions[1].status = "success"
           /\ transactions[1].from = last.arg[1]
           /\ last.end = "done"

\* C10 witness: the fetch of a refresh() threw while the list held the
\* records of an earlier fetch.
C10_Witness ==
    /\ last.act = "historyReturn" /\ last.out.throws
    /\ last.kind = "refresh"
    /\ Len(transactions) = 1

\* The placeholder of the claims: one record, status success, from the
\* queried address.
IsPlaceholder(list, address) ==
    /\ Len(list) = 1
    /\ list[1].status = "success"
    /\ list[1].from = address

\* The answer carries a result list the service built.
HasRecords(out) == ~out.throws /\ out.httpOk /\ out.status = "1" /\ out.result # None

\* C11: when the history service answers with a non-success HTTP status, or a
\* payload whose status flag is not "1" or that has no result list, the
\* transaction list becomes the single placeholder record, as for a thrown
\* fetch.
C11_BadAnswerPlaceholder ==
    (last.act = "historyReturn" /\ ~last.out.throws /\ ~HasRecords(last.out))
        => IsPlaceholder(transactions, last.arg[1])

\* C12: after every completed refresh() or connect() the transaction list is
\* the result of that operation's own history fetch: the first records of the
\* service's result list, or the placeholder; never an earlier list.
C12_ListReplacedWholesale ==
    last.act = "historyReturn"
        => IF HasRecords(last.out)
           THEN /\ Len(transactions) <= Len(last.out.result[1])
                /\ \A k \in 1..Len(transactions) :
                      transactions[k].hash = last.out.result[1][k].hash
           ELSE IsPlaceholder(transactions, last.arg[1])

Min(a, b) == IF a < b THEN a ELSE b

\* C13: the transaction list never holds more than 10 records, and when it
\* comes from a service response of n records it is the first min(10, n) of
\* them in the response's order.
C13_AtMostTenMostRecent ==
    /\ Len(transactions) <= 10
    /\ (last.act = "historyReturn" /\ HasRecords(last.out))
        => /\ Len(transactions) = Min(10, Len(last.out.result[1]))
           /\ \A k \in 1..Len(transactions) :
                 transactions[k].hash = last.out.result[1][k].hash

\* C13 witness: the service answered with 11 records and 10 are held.
C13_Witness ==
    /\ last.act = "historyReturn" /\ HasRecords(last.out)
    /\ Len(last.out.result[1]) = 11
    /\ Len(transactions) = 10
    /\ transactions[10].hash = "0xh02"

\* C14: every record built from a service response has status success exactly
\* when the record's error flag is "0" and failed otherwise, never pending.
C14_StatusFromErrorFlag ==
    (last.act = "historyReturn" /\ HasRecords(last.out))
        => \A k \in 1..Len(transactions) :
              /\ transactions[k].status
                    = (IF last.out.result[1][k].isError = "0" THEN "success" ELSE "failed")
              /\ transactions[k].status # "pending"

\* C14 witness: a list built from a response that holds a failed record and
\* a successful one.
C14_Witness ==
    /\ last.act = "historyReturn" /\ HasRecords(last.out)
    /\ Len(transactions) >= 2
    /\ transactions[1].status = "success"
    /\ transactions[2].status = "failed"

\* C15 as claimed: every TokenBalance held has a display amount, the value
\* rounded to 2 decimals, strictly greater than 0.
C15_DisplayAmountPositive ==
    \A n \in 1..Len(tokenBalances) : tokenBalances[n].balance > 0

\* The raw amount is less than half a hundredth of a token.
BelowHalfCent(raw, decimals) ==
    IF decimals = 6 THEN raw[1] = 0 /\ raw[2] = 0 /\ raw[3] < 5000
    ELSE raw[1] < 5000

\* C15 as amended: every TokenBalance held was built from an answered raw
\* amount strictly greater than 0, the test being made before rounding; its
\* display amount is that value rounded to 2 decimals, which is 0.00 exactly
\* when the value is below 0.005.
C15_RawAmountPositive ==
    last.act = "tokensReturn"
        => \A n \in 1..Len(tokenBalances) :
              \E k \in 1..Len(tokens) :
                  /\ tokens[k].symbol = tokenBalances[n].symbol
                  /\ tokens[k].decimals = tokenBalances[n].decimals
                  /\ last.out[k].ok
                  /\ last.out[k].value # <<0, 0, 0>>
                  /\ tokenBalances[n].balance >= 0
                  /\ (tokenBalances[n].balance = 0
                        <=> BelowHalfCent(last.out[k].value, tokens[k].decimals))

\* C15 witness: a batch that left one holding shown as 0.00 and one shown
\* with a positive amount.
C15_Witness ==
    /\ last.act = "tokensReturn"
    /\ \E n \in 1..Len(tokenBalances) : tokenBalances[n].balance = 0
    /\ \E n \in 1..Len(tokenBalances) : tokenBalances[n].balance > 0

\* C16: no step of a refresh() sends an accounts request or a chain-id
\* request, and none changes connected, address, chainId, network, loading
\* or error: a refresh only writes the balance, the token balances, the
\* transactions and the refreshing flag.
C16_RefreshFrame ==
    [][last'.kind = "refresh"
        => /\ \A i \in 1..Len(last'.sent) :
                last'.sent[i] \notin {"eth_requestAccounts", "eth_accounts", "eth_chainId"}
           /\ walletState'.isConnected = walletState.isConnected
           /\ walletState'.address = walletState.address
           /\ walletState'.chainId = walletState.chainId
           /\ walletState'.network = walletState.network
           /\ walletState'.isLoading = walletState.isLoading
           /\ walletState'.error = walletState.error
           /\ hasProvider' = hasProvider
           /\ probe' = probe]_vars

\* C16 witness: a refresh() that wrote a balance and ran to its end in a
\* connected session.
C16_Witness ==
    /\ last.kind = "refresh"
    /\ last.act = "historyReturn"
    /\ walletState.isConnected
    /\ walletState.balance # None
    /\ ~isRefreshing

\* C17: when every request is eventually answered, loading=true is always
\* followed by loading=false and refreshing=true by refreshing=false, and in
\* no state is loading or refreshing true with no invocation in progress.
C17_FlagsReset ==
    /\ [](ops = EmptyBag => ~walletState.isLoading /\ ~isRefreshing)
    /\ (walletState.isLoading ~> ~walletState.isLoading)
    /\ (isRefreshing ~> ~isRefreshing)

\* C17 witness: a connect() and then a refresh() ran to their ends, nothing
\* is in progress and both flags are down.
C17_Witness ==
    /\ ops = EmptyBag
    /\ last.kind = "refresh" /\ last.end \in {"done", "failed"}
    /\ walletState.isConnected
    /\ ~walletState.isLoading /\ ~isRefreshing

\* C18: while a connect() still has its token-balance fetch or its history
\* fetch to complete, the session is not observable as connected with
\* loading=false.
C18_ConnectedOnlyWithEnrichment ==
    (last.kind = "connect" /\ last.act \in {"connectBalance", "tokensReturn"}
        /\ last.end = "running")
        => ~(walletState.isConnected /\ ~walletState.isLoading)

\* What a step of a connect() must have been waiting for, must send and must
\* leave waiting: the invocation was suspended at `awaited` for address
\* `address`, the step sends exactly `sent` when the awaited answer is a
\* success and nothing when it is a failure, which ends the connect().
ConnectStepInOrder(awaitedOp, success, sent, nextOp) ==
    /\ awaitedOp \in Waiting
    /\ IF success
       THEN /\ last'.sent = sent
            /\ last'.end = "running"
            /\ nextOp \in BagToSet(ops')
       ELSE /\ last'.sent = <<>>
            /\ last'.end = "failed"

\* C19: within one connect() the requests are sent in the order accounts,
\* chain id, native balance, token calls, history fetch, each by the step
\* that consumed the successful answer of the one before (token calls and
\* history fetch after the three mandatory ones, whatever the token calls
\* answer), and the address of the session is the first address of the
\* accounts answer.
C19_RequestOrder ==
    [][last'.kind = "connect" =>
        CASE last'.act \in {"connectClick", "probeConnect"} ->
                last'.sent = (IF last'.end = "running"
                              THEN <<"eth_requestAccounts">> ELSE <<>>)
          [] last'.act = "connectAccounts" ->
                LET ok == last'.out.ok /\ Len(last'.out.value) > 0
                    first == IF ok THEN Some(last'.out.value[1]) ELSE None
                IN  /\ ConnectStepInOrder(Op("connect", "accounts", None, None), ok,
                                          <<"eth_chainId">>,
                                          Op("connect", "chainId", first, None))
                    /\ ok => last'.arg = first
          [] last'.act = "connectChainId" ->
                ConnectStepInOrder(Op("connect", "chainId", last'.arg, None),
                                   last'.out.ok, <<"eth_getBalance">>,
                                   Op("connect", "balance", last'.arg,
                                      IF last'.out.ok THEN Some(last'.out.value) ELSE None))
          [] last'.act = "connectBalance" ->
                /\ \E h \in ChainIdHex :
                      ConnectStepInOrder(Op("connect", "balance", last'.arg, Some(h)),
                                         last'.out.ok, <<"eth_call">>,
                                         Op("connect", "tokens", last'.arg, None))
                /\ last'.out.ok => walletState'.address = last'.arg
          [] last'.act = "tokensReturn" ->
                ConnectStepInOrder(Op("connect", "tokens", last'.arg, None), TRUE,
                                   <<"eth_call", "eth_call", "txlist">>,
                                   Op("connect", "history", last'.arg, None))
          [] last'.act = "historyReturn" ->
                /\ Op("connect", "history", last'.arg, None) \in Waiting
                /\ last'.sent = <<>>
                /\ last'.end = "done"
          [] OTHER -> FALSE]_vars

\* C19 witness: a connect() whose accounts answer listed 0xB2 first and 0xA1
\* second ran to its end for 0xB2, which is the address of the session.
C19_Witness ==
    /\ last.kind = "connect" /\ last.act = "historyReturn"
    /\ last.arg = Some("0xB2")
    /\ walletState.isConnected
    /\ walletState.address = Some("0xB2")

\* The answer is a hex-encoded integer: at least one digit, hex digits only.
IsHexInteger(h) == Len(h) > 0 /\ \A i \in 1..Len(h) : h[i] \in 0..15

\* C20: a chain-id answer that is not a hex-encoded integer makes the
\* connect() fail with the error set, and the session never becomes
\* connected with an unparsed chain id.
C20_MalformedAnswerFails ==
    /\ (last.act = "connectChainId" /\ last.out.ok /\ ~IsHexInteger(last.out.value))
        => /\ last.end = "failed"
           /\ walletState.error # None
           /\ ~walletState.isLoading
    /\ walletState.isConnected => walletState.chainId # Some(NaN)

\* C21: a connect() invoked when no wallet provider is injected fails at
\* once: connected=false, loading=false, a non-empty error message, and no
\* provider request sent or pending.
C21_NoProviderFails ==
    (~hasProvider /\ last.kind = "connect")
        => /\ last.end = "failed"
           /\ last.sent = <<>>
           /\ ops = EmptyBag
           /\ ~walletState.isConnected
           /\ ~walletState.isLoading
           /\ walletState.error # None
           /\ walletState.error # Some("")

\* C21 witness: the connect button was clicked without a provider and the
\* session shows the error.
C21_Witness ==
    /\ ~hasProvider
    /\ last.act = "connectClick"
    /\ walletState.error = Some(NoProviderError.message)

\* The registry table of the claim.
RegisteredNames ==
    {<<1, "Ethereum Mainnet">>, <<3, "Ropsten Testnet">>, <<4, "Rinkeby Testnet">>,
     <<5, "Goerli Testnet">>, <<11155111, "Sepolia Testnet">>, <<137, "Polygon Mainnet">>,
     <<80001, "Mumbai Testnet">>, <<56, "BSC Mainnet">>, <<97, "BSC Testnet">>,
     <<42161, "Arbitrum One">>, <<10, "Optimism">>}

\* C22: the network name of a session is the registered display name when
\* its chain id is in the registry table, and "Unknown Network (Chain ID:
\* <id>)" with that id for every other chain id.
C22_NetworkName ==
    (walletState.isConnected /\ walletState.chainId # Some(NaN))
        => LET id == walletState.chainId[1]
           IN  /\ \A e \in RegisteredNames :
                     id = e[1] => walletState.network = Some(<<e[2]>>)
               /\ (\A e \in RegisteredNames : id # e[1])
                     => walletState.network
                            = Some(<<"Unknown Network (Chain ID: ", id, ")">>)

\* C22 witness: a session on chain 999999, named Unknown with its id.
C22_Witness ==
    /\ walletState.isConnected
    /\ walletState.chainId = Some(999999)
    /\ walletState.network = Some(<<"Unknown Network (Chain ID: ", 999999, ")">>)

\* C23: in a connected session each explorer button opens a URL, and when
\* the chain id of the session has no mapped explorer the URL is on
\* etherscan.io.
C23_ExplorerAlwaysOpens ==
    last.act \in {"openInExplorer", "openTransactionInExplorer"}
        => /\ last.sent # None
           /\ walletState.chainId \notin {Some(1), Some(137), Some(56)}
                 => last.sent[1][1] = "https://etherscan.io"

\* C28: for every chain id the transaction link uses the explorer base the
\* address link uses.
C28_SameExplorerBase ==
    (last.act = "openTransactionInExplorer" /\ openInExplorer(walletState) # None)
        => last.sent[1][1] = openInExplorer(walletState)[1][1]

\* The display value n, a count of units of 10^12, is within half a unit of
\* the raw amount.
WithinHalfMillionth(n, raw) ==
    \/ n = raw[1] /\ (raw[2] < 500000 \/ (raw[2] = 500000 /\ raw[3] = 0))
    \/ n = raw[1] + 1 /\ raw[2] >= 500000

\* The display value n, a count of hundredths of a token, is within half a
\* hundredth of the raw amount of a token of the given decimals.
WithinHalfHundredth(n, raw, decimals) ==
    LET whole == IF decimals = 6
                 THEN raw[1] * 100000000 + raw[2] * 100 + raw[3] \div 10000
                 ELSE raw[1] \div 10000
        rest  == IF decimals = 6 THEN <<0, 0, raw[3] % 10000>>
                 ELSE <<raw[1] % 10000, raw[2], raw[3]>>
        half  == IF decimals = 6 THEN <<0, 0, 5000>> ELSE <<5000, 0, 0>>
    IN  \/ n = whole /\ ~LimbsLess(half, rest)
        \/ n = whole + 1 /\ ~LimbsLess(rest, half)

\* C24: converting a raw amount r to its display value and scaling the
\* display value back by 10^d gives r up to half a unit of the last displayed
\* digit: the native balance (d = 18, 6 digits) that a connect or a refresh
\* stores, and every token balance (2 digits) that a token fetch stores; a
\* raw amount of 0 is displayed as 0.
C24_RoundTrip ==
    /\ (last.act \in {"connectBalance", "refreshBalance"} /\ last.end = "running")
          => /\ walletState.balance # None
             /\ WithinHalfMillionth(walletState.balance[1], last.out.value)
             /\ last.out.value = <<0, 0, 0>> => walletState.balance = Some(0)
    /\ last.act = "tokensReturn"
          => \A n \in 1..Len(tokenBalances) :
                \E k \in 1..Len(tokens) :
                    /\ tokens[k].symbol = tokenBalances[n].symbol
                    /\ last.out[k].ok
                    /\ WithinHalfHundredth(tokenBalances[n].balance,
                                           last.out[k].value, tokens[k].decimals)


\* The chain whose transactions the service at an API base lists.
ChainServedBy(base) ==
    CASE base = "https://api.etherscan.io/api" -> Some(1)
      [] base = "https://api.polygonscan.com/api" -> Some(137)
      [] base = "https://api.bscscan.com/api" -> Some(56)
      [] OTHER -> None

\* C25: whenever records of the history service are stored in a session that
\* is Connected with chain id c, they were fetched from the service of chain
\* c, for every chain id the provider reports.
C25_ChainScoped ==
    ( /\ last.act = "historyReturn"
      /\ walletState.isConnected
      /\ ~last.out.throws /\ last.out.httpOk
      /\ last.out.status = "1" /\ last.out.result # None )
        => /\ transactions = FormattedTransactions(last.out.result[1])
           /\ ChainServedBy(TxListUrl(last.arg[1])[1]) = walletState.chainId

\* The Error state of the session: not connected, an error present, not
\* loading.
InError ==
    /\ ~walletState.isConnected
    /\ walletState.error # None
    /\ ~walletState.isLoading

\* The flags of a session state.
Flags(ws) == <<ws.isConnected, ws.isLoading, ws.error = None>>

\* C26: in every Error state a connect() is accepted, and it does what a
\* connect() from Disconnected does: with a provider it leaves the session
\* not connected, loading, with no error, and has sent the one accounts
\* request; with no provider it fails as from Disconnected. This holds of
\* every Error state of a run, so after any number of failed attempts.
C26_RetryFromError ==
    /\ []((InError /\ CanInvoke) => ENABLED ConnectClick)
    /\ [][(InError /\ ConnectClick)
            => IF hasProvider
               THEN /\ Flags(walletState') = Flags(LoadingState(DefaultWalletState))
                    /\ walletState'.isLoading /\ walletState'.error = None
                    /\ ops' = ops (+) SetToBag({Op("connect", "accounts", None, None)})
                    /\ last'.sent = <<"eth_requestAccounts">>
               ELSE /\ Flags(walletState')
                          = Flags(ConnectFailedState(LoadingState(DefaultWalletState),
                                                     ErrorMessage(NoProviderError)))
                    /\ ops' = ops]_vars

\* C26 witness: a retry is under way: the session, which was in Error, is
\* loading with no error and the accounts request of the retry is awaited.
C26_Witness ==
    /\ last.act = "connectClick" /\ last.end = "running"
    /\ walletState.isLoading /\ walletState.error = None
    /\ ~walletState.isConnected
    /\ Op("connect", "accounts", None, None) \in Waiting

\* C27: the timestamp of the placeholder record stored when the history
\* fetch throws is in seconds since the epoch, as the timestamps of the
\* records of the service are: it is at most the current time in seconds,
\* and the instant formatTime shows for it is one hour before the current
\* time, to the minute.
C27_PlaceholderTimestamp ==
    (last.act = "historyReturn" /\ last.out.throws)
        => /\ Len(transactions) = 1
           /\ transactions[1].timestamp <= last.out.now \div 1000
           /\ last.out.now - formatTime(transactions[1].timestamp) >= 3600000 - 60000
           /\ last.out.now - formatTime(transactions[1].timestamp) <= 3600000 + 60000

\* The session as disconnect() leaves it.
DisconnectedShape ==
    /\ walletState = DefaultWalletState
    /\ tokenBalances = <<>>
    /\ transactions = <<>>

\* C29: once disconnected, the session stays in the default disconnected
\* shape with both lists empty under every step that is not a new connect()
\* or a step of the startup probe: what a connect() or refresh() still in
\* flight gets answered is not written back.
C29_DisconnectionStable ==
    [][(DisconnectedShape
            /\ ~ConnectClick
            /\ last'.act \notin {"probeStart", "probeReturn", "probeConnect"})
        => DisconnectedShape']_vars

\* The step wrote a native balance, a token list or a transaction list.
WroteDerivedData(step) ==
    \/ step.act \in {"connectBalance", "refreshBalance"} /\ step.out.ok
    \/ step.act = "tokensReturn"
    \/ /\ step.act = "historyReturn"
       /\ \/ step.out.throws
          \/ step.out.httpOk /\ step.out.status = "1" /\ step.out.result # None

\* C30: whenever a step has written a native balance, a token list or a
\* transaction list while the session has address a, the data was fetched for
\* a: the invocation that wrote it was started for a.
C30_DataOfActiveAccount ==
    (WroteDerivedData(last) /\ walletState.address # None)
        => last.arg = walletState.address

\* C31: a refresh() whose native-balance request fails changes no session
\* data: neither its first step (the click) nor the step that handles the
\* failure changes the session fields, the token balances or the
\* transactions; the failing step sends no token or history request, ends
\* the refresh and leaves refreshing false.
C31_FailedRefreshChangesNothing ==
    [][(last'.kind = "refresh"
            /\ (last'.act = "refreshClick" \/ (last'.act = "refreshBalance" /\ ~last'.out.ok)))
        => /\ walletState' = walletState
           /\ tokenBalances' = tokenBalances
           /\ transactions' = transactions
           /\ last'.act = "refreshBalance"
                 => /\ last'.sent = <<>>
                    /\ last'.end = "failed"
                    /\ ~isRefreshing'
                    /\ BagCardinality(ops') = BagCardinality(ops) - 1
                    /\ \A op \in BagToSet(ops') : CopiesIn(op, ops') <= CopiesIn(op, ops)]_vars

\* C31 witness: the balance request of a refresh() failed in a connected
\* session that holds a balance and token balances; refreshing is false.
C31_Witness ==
    /\ last.act = "refreshBalance" /\ ~last.out.ok /\ last.end = "failed"
    /\ walletState.isConnected
    /\ walletState.balance # None
    /\ tokenBalances # <<>>
    /\ ~isRefreshing

\* C32: in every reachable state connected=true implies loading=false and
\* error absent: the session is never at once Connected and Connecting, or
\* Connected and Error.
C32_StatesExclusive ==
    walletState.isConnected
        => /\ ~walletState.isLoading
           /\ walletState.error = None

====
